---- MODULE Spec2Model ----
(***************************************************************************)
(* Diceware passphrase generation (package diceware, v2): RollWord,        *)
(* RollWords, the wordlist interface and the random source, as a state     *)
(* machine that takes one step per random draw, fetch or call.             *)
(*                                                                         *)
(* Strings are sequences of one-character strings; a nil error is the      *)
(* empty sequence and a wrapped error is the sequence of its layers,       *)
(* outermost first.                                                        *)
(***************************************************************************)
EXTENDS Integers, Sequences, FiniteSets, TLC

VARIABLES
    frame,          \* call id -> the activation record of one API call
    defaultRandom,  \* the package-level default random source
    maps            \* wordlist reference -> the *Map object it points to

vars == <<frame, defaultRandom, maps>>

----------------------------------------------------------------------------
(* Bounds of the exploration *)

\* largest WordCount passed to RollWords
MaxWordCount == 2
\* enhancers discarded per call before the exploration stops following it
MaxDiscards == 1

----------------------------------------------------------------------------
(* Errors *)

Nil == <<>>

Layer(msg, arg) == [msg |-> msg, arg |-> arg]

ErrInvalidWordlist == <<Layer("invalid nil wordlist provided", 0)>>

ErrInvalidWordFetched == <<Layer("invalid empty word fetched", 0)>>

ErrInvalidWordCount == <<Layer("invalid word count: must be positive", 0)>>

\* Errorf formatting the error with %v: the text is kept, the chain is cut
Errorf_Opaque(msg, arg, err) == <<Layer(msg, arg)>>

\* fmt.Errorf(msg with one %w and at most one %d, ...)
Errorf(msg, arg, err) == <<Layer(msg, arg)>> \o err

----------------------------------------------------------------------------
(* Strings *)

\* strings.Contains(s, substr)
Contains(s, substr) ==
    \E n \in 0..(Len(s) - Len(substr)) :
        SubSeq(s, n + 1, n + Len(substr)) = substr

\* index (0-based) of the first occurrence of sep in s at or after from, or -1
RECURSIVE Index(_, _, _)
Index(s, sep, from) ==
    IF from + Len(sep) > Len(s) THEN 0 - 1
    ELSE IF SubSeq(s, from + 1, from + Len(sep)) = sep THEN from
    ELSE Index(s, sep, from + 1)

\* Join writing the separator after every element, the last one included
RECURSIVE Join_Trailing(_, _)
Join_Trailing(elems, sep) ==
    IF Len(elems) = 0 THEN <<>>
    ELSE elems[1] \o sep \o Join_Trailing(Tail(elems), sep)

\* strings.Join(elems, sep)
RECURSIVE Join(_, _)
Join(elems, sep) ==
    IF Len(elems) = 0 THEN <<>>
    ELSE IF Len(elems) = 1 THEN elems[1]
    ELSE elems[1] \o sep \o Join(Tail(elems), sep)

\* strings.Split(s, sep): an empty sep explodes s into its characters,
\* otherwise s is cut at the leftmost non-overlapping occurrences of sep
RECURSIVE Split(_, _)
Split(s, sep) ==
    IF Len(sep) = 0
    THEN [n \in 1..Len(s) |-> <<s[n]>>]
    ELSE LET m == Index(s, sep, 0)
         IN  IF m < 0 THEN <<s>>
             ELSE <<SubSeq(s, 1, m)>>
                  \o Split(SubSeq(s, m + Len(sep) + 1, Len(s)), sep)

----------------------------------------------------------------------------
(* Wordlists: a wordlist is a reference; its methods look the data up *)

NilWordlist == "nil"

\* wordlist.ExtraEntropy
ExtraEntropy == "ExtraEntropy"

\* the table with the characters of codes 11 and 12 transposed
ExtraEntropyWords_Swapped ==
    [code \in {11, 12, 13, 14, 15, 16, 21, 22, 23, 24, 25, 26,
               31, 32, 33, 34, 35, 36, 41, 42, 43, 44, 45, 46,
               51, 52, 53, 54, 55, 56, 61, 62, 63, 64, 65, 66} |->
        CASE code = 11 -> <<"!">>
          [] code = 12 -> <<"~">>
          [] code = 13 -> <<"@">> [] code = 14 -> <<"#">>
          [] code = 15 -> <<"$">> [] code = 16 -> <<"%">>
          [] code = 21 -> <<"^">> [] code = 22 -> <<"&">>
          [] code = 23 -> <<"*">> [] code = 24 -> <<"(">>
          [] code = 25 -> <<")">> [] code = 26 -> <<"-">>
          [] code = 31 -> <<"_">> [] code = 32 -> <<"=">>
          [] code = 33 -> <<"+">> [] code = 34 -> <<"{">>
          [] code = 35 -> <<"}">> [] code = 36 -> <<"[">>
          [] code = 41 -> <<"]">> [] code = 42 -> <<"|">>
          [] code = 43 -> <<".">> [] code = 44 -> <<":">>
          [] code = 45 -> <<";">> [] code = 46 -> <<"/">>
          [] code = 51 -> <<"?">> [] code = 52 -> <<">">>
          [] code = 53 -> <<"<">> [] code = 54 -> <<"1">>
          [] code = 55 -> <<"2">> [] code = 56 -> <<"3">>
          [] code = 61 -> <<"4">> [] code = 62 -> <<"5">>
          [] code = 63 -> <<"6">> [] code = 64 -> <<"7">>
          [] code = 65 -> <<"8">> [] code = 66 -> <<"9">>]

ExtraEntropyWords ==
    ( 11 :> <<"~">> @@ 12 :> <<"!">> @@ 13 :> <<"@">> @@ 14 :> <<"#">>
   @@ 15 :> <<"$">> @@ 16 :> <<"%">> @@ 21 :> <<"^">> @@ 22 :> <<"&">>
   @@ 23 :> <<"*">> @@ 24 :> <<"(">> @@ 25 :> <<")">> @@ 26 :> <<"-">>
   @@ 31 :> <<"_">> @@ 32 :> <<"=">> @@ 33 :> <<"+">> @@ 34 :> <<"{">>
   @@ 35 :> <<"}">> @@ 36 :> <<"[">> @@ 41 :> <<"]">> @@ 42 :> <<"|">>
   @@ 43 :> <<".">> @@ 44 :> <<":">> @@ 45 :> <<";">> @@ 46 :> <<"/">>
   @@ 51 :> <<"?">> @@ 52 :> <<">">> @@ 53 :> <<"<">> @@ 54 :> <<"1">>
   @@ 55 :> <<"2">> @@ 56 :> <<"3">> @@ 61 :> <<"4">> @@ 62 :> <<"5">>
   @@ 63 :> <<"6">> @@ 64 :> <<"7">> @@ 65 :> <<"8">> @@ 66 :> <<"9">> )

\* the caller's wordlists: wordlist.NewMap(rolls, sidesOfDice, words)
NewMap(rolls, sidesOfDice, words) ==
    [rolls |-> rolls, sidesOfDice |-> sidesOfDice, words |-> words]

\* a complete one-roll list, after the tests' validWordlistMap
validWordlistMap ==
    NewMap(1, 2, (1 :> <<"a", "b">> @@ 2 :> <<"c">>))

\* a two-roll list whose table has no entry for codes 11 and 12
sparseWordlistMap ==
    NewMap(2, 2, (21 :> <<"a", "b">> @@ 22 :> <<"c">>))

\* a list of two rolls of a ten-sided die, with a few entries
tenSidedMap ==
    NewMap(2, 10, (11 :> <<"a">> @@ 20 :> <<"c">> @@ 110 :> <<"a", "b">>))

\* the Map objects, the entropy wordlist constructed as a list of one roll
WordlistMaps_OneRoll ==
    ( "validWordlistMap" :> validWordlistMap
   @@ "sparseWordlistMap" :> sparseWordlistMap
   @@ "tenSidedMap" :> tenSidedMap
   @@ ExtraEntropy :> NewMap(1, 6, ExtraEntropyWords) )

\* the Map objects as constructed
WordlistMaps ==
    ( "validWordlistMap" :> validWordlistMap
   @@ "sparseWordlistMap" :> sparseWordlistMap
   @@ "tenSidedMap" :> tenSidedMap
   @@ ExtraEntropy :> NewMap(2, 6, ExtraEntropyWords) )

\* the tests' validWordlist: a MockWordlist of one roll of a six-sided die
\* that returns "test" for any roll value
MockWordlist == "validWordlist"

MockWordlistWord == <<"t", "e", "s", "t">>

\* the Map object a wordlist reference points to
Map(wl) == maps[wl]

\* Wordlist.Rolls: (*Map).Rolls, or the mock's programmed value
Rolls(wl) == IF wl = MockWordlist THEN 1 ELSE Map(wl).rolls

\* Wordlist.SidesOfDice: (*Map).SidesOfDice, or the mock's programmed value
SidesOfDice(wl) == IF wl = MockWordlist THEN 6 ELSE Map(wl).sidesOfDice

\* the table read creating the entry it misses
MapFetched_Insert(m, diceRoll) ==
    IF diceRoll \in DOMAIN m.words THEN m
    ELSE [m EXCEPT !.words = (diceRoll :> <<>>) @@ m.words]

\* the Map object after word := wl.words[diceRoll]: reading a Go map, a
\* missing key included, leaves the map as it was
MapFetched(m, diceRoll) == m

\* (*Map).FetchWord: a missing key reads as the empty string
MapFetchWord(m, diceRoll) ==
    IF diceRoll \in DOMAIN m.words THEN m.words[diceRoll] ELSE <<>>

\* Wordlist.FetchWord: (*Map).FetchWord, or the mock's programmed word
FetchWord(wl, diceRoll) ==
    IF wl = MockWordlist THEN MockWordlistWord
    ELSE MapFetchWord(Map(wl), diceRoll)

----------------------------------------------------------------------------
(* Random sources *)

NilSource == "nil"

CryptoRandom == "CryptoRandom"

MockRandomSource == "MockRandomSource"

\* the values a programmed source (the tests' MockRandomSource) is set up to
\* return
MockValues == {0, 1}

\* what GetRandom(maxVal) of a source can return: a value in [0, maxVal), or
\* an error
GetRandomValues(source, maxVal) ==
    IF source = MockRandomSource
    THEN {v \in MockValues : v < maxVal}
    ELSE 0..(maxVal - 1)

\* crypto/rand's Reader, which the legacy RollWords reads directly
RandReader == "rand.Reader"

\* a source that never fails and returns every value below the bound
FairRandomSource == "FairRandomSource"

GetRandomError(source) ==
    IF source = MockRandomSource
    THEN Errorf("mock error: %w", 0, <<Layer("random failure", 0)>>)
    ELSE IF source = RandReader
    THEN <<Layer("rand.Reader", 0)>>
    ELSE Errorf("failed to get random value: %w", 0, <<Layer("rand.Reader", 0)>>)

\* rand.Int(rand.Reader, max) panics when max <= 0
Panics(source, maxVal) == source \in {CryptoRandom, RandReader} /\ maxVal <= 0

\* one outcome of a GetRandom call
Drawn(maxVal, value) == [bound |-> maxVal, ok |-> TRUE, value |-> value]

Failed(maxVal) == [bound |-> maxVal, ok |-> FALSE, value |-> 0]

\* the call did not return: it panicked
Panicked(maxVal) == [bound |-> maxVal, ok |-> FALSE, value |-> 0 - 1]

\* the failures a source can answer a GetRandom call with
Failures(source, maxVal) ==
    IF source = FairRandomSource THEN {} ELSE {Failed(maxVal)}

\* the outcomes call c's next draw can have.  With replay, two calls hold
\* random sources programmed alike: a draw another call already made at the
\* same position with the same bound is returned again.
Outcomes(c, source, maxVal, replay) ==
    LET n == Len(frame[c].log) + 1
        peers == {d \in DOMAIN frame \ {c} :
                    /\ replay
                    /\ Len(frame[d].log) >= n
                    /\ frame[d].log[n].bound = maxVal}
    IN  IF Panics(source, maxVal)
        THEN {Panicked(maxVal)}
        ELSE IF peers # {}
        THEN {frame[d].log[n] : d \in peers}
        ELSE {Drawn(maxVal, v) : v \in GetRandomValues(source, maxVal)}
             \cup Failures(source, maxVal)

\* PositionOutcomes reading crypto/rand directly, as the legacy RollWords
\* does, instead of the random source of the options
PositionOutcomes_Direct(c, source, maxVal, replay) ==
    Outcomes(c, CryptoRandom, maxVal, FALSE)

\* pos, err := opts.RandomSource.GetRandom(big.NewInt(int64(len(words[i]))))
PositionOutcomes(c, source, maxVal, replay) ==
    Outcomes(c, source, maxVal, replay)

----------------------------------------------------------------------------
(* Inputs *)

Separators == { <<>>, <<"b">>, <<"~">>, <<"-", "!">> }

Wordlists == { NilWordlist, "validWordlistMap", "sparseWordlistMap" }

RandomSources == { NilSource, CryptoRandom, MockRandomSource }

PassphraseOptions ==
    [ WordCount : (0 - 1)..MaxWordCount,
      Separator : Separators,
      Wordlist : Wordlists,
      EnhanceEntropy : BOOLEAN,
      RandomSource : RandomSources ]

\* the options explored: the crypto source, which draws from its full range,
\* for passphrases of one word; a programmed source up to MaxWordCount words
RollWordsInputs ==
    { o \in PassphraseOptions :
        \/ o.RandomSource = MockRandomSource
        \/ o.WordCount <= 1 }

\* the options of the tests "Valid passphrase generation" and "Enhanced
\* entropy"
TestOptions ==
    { [ WordCount |-> 5, Separator |-> <<"_">>, Wordlist |-> MockWordlist,
        EnhanceEntropy |-> FALSE, RandomSource |-> MockRandomSource ],
      [ WordCount |-> 3, Separator |-> <<"-">>, Wordlist |-> MockWordlist,
        EnhanceEntropy |-> TRUE, RandomSource |-> MockRandomSource ] }

\* the zero value of PassphraseOptions
ZeroOptions ==
    [ WordCount |-> 0, Separator |-> <<>>, Wordlist |-> NilWordlist,
      EnhanceEntropy |-> FALSE, RandomSource |-> NilSource ]

\* wordlist.EFFLong; its table is not needed by what is modelled
EFFLong == "EFFLong"

\* the value DefaultOptions returns
DefaultOptions_FiveWords ==
    [ WordCount |-> 5, Separator |-> <<" ">>, Wordlist |-> EFFLong,
      EnhanceEntropy |-> FALSE, RandomSource |-> CryptoRandom ]

\* DefaultOptions(): the PassphraseOptions literal it returns
DefaultOptions ==
    [ WordCount |-> 6, Separator |-> <<" ">>, Wordlist |-> EFFLong,
      EnhanceEntropy |-> FALSE, RandomSource |-> CryptoRandom ]

\* the variadic enhanceEntropy arguments passed to SimpleRollWords
Flags == { <<>>, <<TRUE>>, <<FALSE>>, <<TRUE, FALSE>>, <<FALSE, TRUE>> }

\* the arguments of a direct RollWord(wl, randomSource) call
RollWordInputs ==
    [ WordCount : {0},
      Separator : {<<>>},
      Wordlist : Wordlists \cup {ExtraEntropy, "tenSidedMap"},
      EnhanceEntropy : {FALSE},
      RandomSource : RandomSources ]

----------------------------------------------------------------------------
(* Activation records *)

NewFrame(api, o) ==
    [ api |-> api,            \* the function called
      caller |-> o,           \* the value the caller holds
      flags |-> <<>>,         \* SimpleRollWords' variadic enhanceEntropy
      opts |-> o,             \* the callee's copy (passed by value)
      pc |-> api,
      \* RollWords locals
      words |-> <<>>,
      wi |-> 0,               \* index of the word being generated
      numToEnhance |-> 0,
      i |-> 0,                \* index of the word being enhanced
      enhancer |-> <<>>,
      \* RollWord parameters and locals
      ctx |-> IF api = "RollWord" THEN "api" ELSE "none",
      wl |-> IF api \in {"RollWord", "FetchWord"} THEN o.Wordlist
             ELSE NilWordlist,
      randomSource |-> o.RandomSource,
      ri |-> 0,               \* the roll loop's counter i
      rollValue |-> 0,
      \* the call's return values
      result |-> <<>>,
      err |-> Nil,
      options |-> ZeroOptions,
      last |-> Failed(0),     \* the outcome of the latest draw
      record |-> TRUE,        \* whether the history below is kept
      \* history: the words as rolled, the draws made, the codes fetched
      \* (each with the number of draws made before it), the enhancers
      \* discarded
      rolled |-> <<>>,
      log |-> <<>>,
      fetches |-> <<>>,
      discarded |-> 0 ]

\* Done returning the words generated so far beside an error
Done_Partial(f, result, err) ==
    [f EXCEPT !.pc = "done",
              !.result = IF err # Nil THEN Join(f.words, f.opts.Separator)
                         ELSE result,
              !.err = err]

\* return (result, err) to the API's caller
Done(f, result, err) ==
    [f EXCEPT !.pc = "done", !.result = result, !.err = err]

\* call RollWord(wl, f.opts.RandomSource) from inside RollWords
CallRollWord(f, wl, ctx) ==
    [f EXCEPT !.pc = "RollWord", !.ctx = ctx, !.wl = wl,
              !.randomSource = f.opts.RandomSource]

\* NumToEnhance without the + 1
NumToEnhance_NoPlusOne(wordsToEnhance) == wordsToEnhance

\* Insert placing the enhancer before the drawn position
Insert_Before(word, posIdx, enhancer) ==
    SubSeq(word, 1, posIdx) \o enhancer \o SubSeq(word, posIdx + 1, Len(word))

\* numToEnhance := int(wordsToEnhance.Int64()) + 1
NumToEnhance(wordsToEnhance) == wordsToEnhance + 1

\* words[i][:posIdx+1] + enhancer + words[i][posIdx+1:]
Insert(word, posIdx, enhancer) ==
    SubSeq(word, 1, posIdx + 1) \o enhancer \o SubSeq(word, posIdx + 2, Len(word))

\* EnhanceLoop rolling the enhancer from the caller's wordlist
EnhanceLoop_OwnWordlist(f) ==
    IF f.i < f.numToEnhance
    THEN CallRollWord(f, f.opts.Wordlist, "enhancer")
    ELSE Done(f, Join(f.words, f.opts.Separator), Nil)

\* the head of the enhancement loop: for i := 0; i < numToEnhance; { ... },
\* followed by the final join
EnhanceLoop(f) ==
    IF f.i < f.numToEnhance
    THEN CallRollWord(f, ExtraEntropy, "enhancer")
    ELSE Done(f, Join(f.words, f.opts.Separator), Nil)

\* WordLoop leaving the last element of words as make created it
WordLoop_OneShort(f) ==
    IF f.wi < Len(f.words) - 1
    THEN CallRollWord(f, f.opts.Wordlist, "word")
    ELSE IF f.opts.EnhanceEntropy
         THEN [f EXCEPT !.pc = "wordsToEnhance", !.rolled = f.words]
         ELSE Done([f EXCEPT !.rolled = f.words],
                   Join(f.words, f.opts.Separator), Nil)

\* the head of the word loop: for i := range words { ... }, followed by the
\* enhancement or the final join
WordLoop(f) ==
    IF f.wi < Len(f.words)
    THEN CallRollWord(f, f.opts.Wordlist, "word")
    ELSE IF f.opts.EnhanceEntropy
         THEN [f EXCEPT !.pc = "wordsToEnhance", !.rolled = f.words]
         ELSE Done([f EXCEPT !.rolled = f.words],
                   Join(f.words, f.opts.Separator), Nil)

\* Skip keeping every enhancer
Skip_Never(separator, enhancer) == FALSE

\* Skip discarding the enhancer only when it is the whole separator
Skip_Equal(separator, enhancer) == separator = enhancer

\* Continue advancing i, as a loop with i++ in its header would
Continue_Advance(f) ==
    [f EXCEPT !.discarded = f.discarded + 1, !.i = f.i + 1]

\* whether the enhancer is discarded: strings.Contains(opts.Separator, enhancer)
Skip(separator, enhancer) == Contains(separator, enhancer)

\* the discard's `continue`: back to the loop head, i as it was
Continue(f) ==
    [f EXCEPT !.discarded = IF f.record THEN f.discarded + 1 ELSE f.discarded]

\* InvalidWord accepting every fetched word, the empty one included
InvalidWord_Never(word) == FALSE

\* if len(word) == 0 { return "", ErrInvalidWordFetched wrapped with the code }
InvalidWord(word) == Len(word) = 0

\* WordIndex naming the word by its zero-based loop index
WordIndex_ZeroBased(i) == i

\* the index the word loop's error names: i+1
WordIndex(i) == i + 1

\* the error a failure is returned as: the v2 functions wrap it with
\* fmt.Errorf, the legacy RollWords and rollWord return it as it is
Wrap(f, msg, arg, err) ==
    IF f.api = "LegacyRollWords" THEN err ELSE Errorf(msg, arg, err)

\* the frame after a draw
Logged(f, draw) ==
    [f EXCEPT !.last = draw,
              !.log = IF f.record THEN Append(f.log, draw) ELSE f.log]

\* a call that panicked: it never returns
Panic(f) == [f EXCEPT !.pc = "panic"]

\* RollWord returns (word, err) to the place it was called from
Return(f, word, err) ==
    CASE f.ctx = "api" -> Done(f, word, err)
      [] f.ctx = "word" ->
            IF err # Nil
            THEN Done(f, <<>>, Wrap(f, "failed to generate word %d: %w", WordIndex(f.wi), err))
            ELSE WordLoop([f EXCEPT !.words[f.wi + 1] = word, !.wi = f.wi + 1])
      [] f.ctx = "enhancer" ->
            IF err # Nil
            THEN Done(f, <<>>, Wrap(f, "failed to generate entropy enhancer: %w", 0, err))
            ELSE IF Skip(f.opts.Separator, word)
                 THEN EnhanceLoop(Continue(f))
                 ELSE [f EXCEPT !.pc = "pos", !.enhancer = word]

\* Face taking the value drawn, 0-indexed, as the die's face
Face_ZeroBased(value) == value

\* int(roll.Int64()) + 1: dice are 1-indexed
Face(value) == value + 1

\* PlaceValue in base six, the number of sides, instead of base ten
RECURSIVE PlaceValue_BaseSix(_, _, _)
PlaceValue_BaseSix(placeValue, j, i) ==
    IF j < i THEN PlaceValue_BaseSix(placeValue * 6, j + 1, i) ELSE placeValue

\* placeValue := 1; for j := 1; j < i; j++ { placeValue *= 10 }
RECURSIVE PlaceValue(_, _, _)
PlaceValue(placeValue, j, i) ==
    IF j < i THEN PlaceValue(placeValue * 10, j + 1, i) ELSE placeValue

\* rollValue += placeValue * roll, with the place value of iteration i
Accumulate(rollValue, i, value) ==
    rollValue + PlaceValue(1, 1, i) * Face(value)

\* Validate with the word count checked before the wordlist
Validate_CountFirst(opts) ==
    IF opts.WordCount <= 0 THEN ErrInvalidWordCount
    ELSE IF opts.Wordlist = NilWordlist THEN ErrInvalidWordlist
    ELSE Nil

\* Validate rejecting only negative word counts
Validate_ZeroAllowed(opts) ==
    IF opts.Wordlist = NilWordlist THEN ErrInvalidWordlist
    ELSE IF opts.WordCount < 0 THEN ErrInvalidWordCount
    ELSE Nil

\* the checks RollWords makes of its options, in the order it makes them:
\* the error it returns, or Nil
Validate(opts) ==
    IF opts.Wordlist = NilWordlist THEN ErrInvalidWordlist
    ELSE IF opts.WordCount <= 0 THEN ErrInvalidWordCount
    ELSE Nil

\* SetDefaultRandom assigning through to the options value the caller holds,
\* as it would were opts passed by pointer
SetDefaultRandom_Caller(f) ==
    IF f.opts.RandomSource = NilSource
    THEN [f EXCEPT !.opts.RandomSource = defaultRandom,
                   !.caller.RandomSource = defaultRandom]
    ELSE f

\* if opts.RandomSource == nil { opts.RandomSource = defaultRandom }, on
\* RollWords' own copy of the options
SetDefaultRandom(f) ==
    IF f.opts.RandomSource = NilSource
    THEN [f EXCEPT !.opts.RandomSource = defaultRandom]
    ELSE f

\* EnhanceFlag true when any of the arguments passed is true
EnhanceFlag_Any(enhanceEntropy) ==
    \E n \in 1..Len(enhanceEntropy) : enhanceEntropy[n]

\* len(enhanceEntropy) > 0 && enhanceEntropy[0]
EnhanceFlag(enhanceEntropy) ==
    Len(enhanceEntropy) > 0 /\ enhanceEntropy[1]

----------------------------------------------------------------------------
(* Operations *)

\* SimpleRollWords up to its call of RollWords(opts)
SimpleRollWordsEnter(c) ==
    LET f == frame[c] IN
    /\ f.pc = "SimpleRollWords"
    /\ frame' = [frame EXCEPT ![c] =
          [f EXCEPT !.pc = "RollWords",
                    !.opts = [ WordCount |-> f.caller.WordCount,
                               Separator |-> f.caller.Separator,
                               Wordlist |-> f.caller.Wordlist,
                               EnhanceEntropy |-> EnhanceFlag(f.flags),
                               RandomSource |-> defaultRandom ]]]
    /\ UNCHANGED <<defaultRandom, maps>>

\* the legacy ErrInvalidWordlist
LegacyErrInvalidWordlist == <<Layer("invalid nil wordlist given", 0)>>

\* if len(enhanceEntropy) == 0 { enhanceEntropy = append(enhanceEntropy, false) }
\* ... enhanceEntropy[0]
LegacyFlag(enhanceEntropy) ==
    IF Len(enhanceEntropy) = 0 THEN FALSE ELSE enhanceEntropy[1]

\* the legacy RollWords(wordCount, separator, wl, enhanceEntropy...) up to its
\* first rollWord call: the wordlist is checked, the word count is not, and
\* make([]string, wordCount) panics for a negative wordCount
LegacyRollWordsEnter(c) ==
    LET f == frame[c] IN
    /\ f.pc = "LegacyRollWords"
    /\ frame' = [frame EXCEPT ![c] =
          IF f.caller.Wordlist = NilWordlist
          THEN Done(f, <<>>, LegacyErrInvalidWordlist)
          ELSE IF f.caller.WordCount < 0
          THEN Panic(f)
          ELSE WordLoop([f EXCEPT
                  !.opts.EnhanceEntropy = LegacyFlag(f.flags),
                  !.opts.RandomSource = RandReader,
                  !.words = [n \in 1..f.caller.WordCount |-> <<>>],
                  !.wi = 0])]
    /\ UNCHANGED <<defaultRandom, maps>>

\* a DefaultOptions call
DefaultOptionsCall(c) ==
    LET f == frame[c] IN
    /\ f.pc = "DefaultOptions"
    /\ frame' = [frame EXCEPT ![c] =
          [f EXCEPT !.pc = "done", !.options = DefaultOptions]]
    /\ UNCHANGED <<defaultRandom, maps>>

\* a FetchWord(diceRoll) call on a Map, diceRoll held in rollValue
FetchWordCall(c) ==
    LET f == frame[c] IN
    /\ f.pc = "FetchWord"
    /\ frame' = [frame EXCEPT ![c] =
          Done(f, MapFetchWord(Map(f.wl), f.rollValue), Nil)]
    /\ maps' = [maps EXCEPT ![f.wl] = MapFetched(maps[f.wl], f.rollValue)]
    /\ UNCHANGED defaultRandom

\* RollWords up to its first RollWord call
RollWordsEnter(c) ==
    LET f == frame[c] IN
    /\ f.pc = "RollWords"
    /\ frame' = [frame EXCEPT ![c] =
          IF Validate(f.opts) # Nil
          THEN Done(f, <<>>, Validate(f.opts))
          ELSE LET g == SetDefaultRandom(f)
               IN  WordLoop([g EXCEPT
                        !.words = [n \in 1..f.opts.WordCount |-> <<>>],
                        !.wi = 0])]
    /\ UNCHANGED <<defaultRandom, maps>>

\* RollWord up to the head of its roll loop.  (A call that has discarded more
\* than MaxDiscards enhancers is followed no further.)
RollWordEnter(c) ==
    LET f == frame[c] IN
    /\ f.pc = "RollWord"
    /\ f.discarded <= MaxDiscards
    /\ frame' = [frame EXCEPT ![c] =
          IF f.wl = NilWordlist
          THEN Return(f, <<>>, ErrInvalidWordlist)
          ELSE [f EXCEPT
                  !.randomSource = IF f.randomSource = NilSource
                                   THEN defaultRandom ELSE f.randomSource,
                  !.rollValue = 0,
                  !.ri = Rolls(f.wl),
                  !.pc = IF Rolls(f.wl) > 0 THEN "roll" ELSE "fetch"]]
    /\ UNCHANGED <<defaultRandom, maps>>

\* one iteration of RollWord's loop: for i := wl.Rolls(); i > 0; i-- { ... }
Roll(c, replay) ==
    LET f == frame[c]
        maxVal == SidesOfDice(f.wl)
    IN
    /\ f.pc = "roll"
    /\ \E roll \in Outcomes(c, f.randomSource, maxVal, replay) :
         LET g == Logged(f, roll) IN
         frame' = [frame EXCEPT ![c] =
            IF roll = Panicked(maxVal) THEN Panic(g)
            ELSE IF ~roll.ok
            THEN Return(g, <<>>,
                        Wrap(f, "failed to generate random number: %w", 0,
                             GetRandomError(f.randomSource)))
            ELSE [g EXCEPT
                    !.rollValue = Accumulate(f.rollValue, f.ri, roll.value),
                    !.ri = f.ri - 1,
                    !.pc = IF f.ri - 1 > 0 THEN "roll" ELSE "fetch"]]
    /\ UNCHANGED <<defaultRandom, maps>>

\* the end of RollWord: fetch the word and return it, or the error
Fetch(c) ==
    LET f == frame[c]
        word == FetchWord(f.wl, f.rollValue)
        g == IF f.record
             THEN [f EXCEPT !.fetches = Append(f.fetches,
                                               [wl |-> f.wl, code |-> f.rollValue,
                                                at |-> Len(f.log)])]
             ELSE f
    IN
    /\ f.pc = "fetch"
    /\ frame' = [frame EXCEPT ![c] =
          IF InvalidWord(word)
          THEN Return(g, <<>>,
                      Errorf("%w for roll value: %d", f.rollValue,
                             ErrInvalidWordFetched))
          ELSE Return(g, word, Nil)]
    /\ maps' = IF f.wl \in DOMAIN maps
               THEN [maps EXCEPT ![f.wl] = MapFetched(maps[f.wl], f.rollValue)]
               ELSE maps
    /\ UNCHANGED defaultRandom

\* RollWords: draw the number of words to enhance
WordsToEnhance(c, replay) ==
    LET f == frame[c]
        maxVal == Len(f.words)
    IN
    /\ f.pc = "wordsToEnhance"
    /\ \E wordsToEnhance \in Outcomes(c, f.opts.RandomSource, maxVal, replay) :
         LET g == Logged(f, wordsToEnhance) IN
         frame' = [frame EXCEPT ![c] =
            IF wordsToEnhance = Panicked(maxVal) THEN Panic(g)
            ELSE IF ~wordsToEnhance.ok
            THEN Done(g, <<>>,
                      Wrap(f, "failed to determine words to enhance: %w", 0,
                           GetRandomError(f.opts.RandomSource)))
            ELSE EnhanceLoop([g EXCEPT
                    !.numToEnhance = NumToEnhance(wordsToEnhance.value),
                    !.i = 0])]
    /\ UNCHANGED <<defaultRandom, maps>>

\* RollWords: draw the position and insert the accepted enhancer
Position(c, replay) ==
    LET f == frame[c]
        maxVal == Len(f.words[f.i + 1])
    IN
    /\ f.pc = "pos"
    /\ \E pos \in PositionOutcomes(c, f.opts.RandomSource, maxVal, replay) :
         LET g == Logged(f, pos) IN
         frame' = [frame EXCEPT ![c] =
            IF pos = Panicked(maxVal) THEN Panic(g)
            ELSE IF ~pos.ok
            THEN Done(g, <<>>,
                      Wrap(f, "failed to determine position for enhancer: %w", 0,
                           GetRandomError(f.opts.RandomSource)))
            ELSE EnhanceLoop([g EXCEPT
                    !.words[f.i + 1] = Insert(f.words[f.i + 1], pos.value, f.enhancer),
                    !.i = f.i + 1])]
    /\ UNCHANGED <<defaultRandom, maps>>

----------------------------------------------------------------------------
(* One API call, its random source drawing freely *)

Init ==
    /\ defaultRandom = CryptoRandom
    /\ maps = WordlistMaps
    /\ \/ \E o \in RollWordsInputs \cup TestOptions :
             frame = (1 :> NewFrame("RollWords", o))
       \/ \E o \in RollWordInputs : frame = (1 :> NewFrame("RollWord", o))

Next ==
    \/ \E c \in DOMAIN frame : RollWordsEnter(c)
    \/ \E c \in DOMAIN frame : RollWordEnter(c)
    \/ \E c \in DOMAIN frame : Roll(c, FALSE)
    \/ \E c \in DOMAIN frame : Fetch(c)
    \/ \E c \in DOMAIN frame : WordsToEnhance(c, FALSE)
    \/ \E c \in DOMAIN frame : Position(c, FALSE)

Spec == Init /\ [][Next]_vars

----------------------------------------------------------------------------
(* Two RollWords calls with equal options, whose random sources are
   programmed alike: the second returns, for the same bound at the same
   position, the value the first returned.  The invocation is repeated once
   the first call has returned. *)

\* the calls before c have returned
Turn(c) == \A d \in DOMAIN frame : d < c => frame[d].pc = "done"

InitDet ==
    /\ defaultRandom = CryptoRandom
    /\ maps = WordlistMaps
    /\ \E o \in RollWordsInputs \cup TestOptions :
          frame = (1 :> NewFrame("RollWords", o) @@ 2 :> NewFrame("RollWords", o))

NextDet ==
    \/ \E c \in DOMAIN frame : Turn(c) /\ RollWordsEnter(c)
    \/ \E c \in DOMAIN frame : Turn(c) /\ RollWordEnter(c)
    \/ \E c \in DOMAIN frame : Turn(c) /\ Roll(c, TRUE)
    \/ \E c \in DOMAIN frame : Turn(c) /\ Fetch(c)
    \/ \E c \in DOMAIN frame : Turn(c) /\ WordsToEnhance(c, TRUE)
    \/ \E c \in DOMAIN frame : Turn(c) /\ Position(c, TRUE)

SpecDet == InitDet /\ [][NextDet]_vars

----------------------------------------------------------------------------
(* Two successive calls of the package's other entry points: RollWords and
   then SimpleRollWords, the default random source returning to the second
   what it returned to the first; DefaultOptions twice; FetchWord twice. *)

\* the roll-codes passed to FetchWord directly
FetchCodes == { 0 - 1, 0, 1, 2, 11, 12, 21, 22, 35, 66, 67, 111 }

\* RollWords options beside SimpleRollWords arguments; with enhancement in
\* either, which the crypto source explores over its full range, one word
SimplePairs ==
    { p \in [ o : PassphraseOptions, flags : Flags ] :
        /\ p.o.RandomSource \in {NilSource, CryptoRandom}
        /\ (p.o.EnhanceEntropy \/ p.flags # <<>>) => p.o.WordCount <= 1 }

InitApi ==
    /\ defaultRandom = CryptoRandom
    /\ maps = WordlistMaps
    /\ \/ \E p \in SimplePairs :
             frame = ( 1 :> NewFrame("RollWords", p.o)
                    @@ 2 :> [NewFrame("SimpleRollWords",
                                      [p.o EXCEPT !.EnhanceEntropy = FALSE,
                                                  !.RandomSource = NilSource])
                               EXCEPT !.flags = p.flags] )
       \/ frame = ( 1 :> NewFrame("DefaultOptions", ZeroOptions)
                  @@ 2 :> NewFrame("DefaultOptions", ZeroOptions) )
       \/ \E wl \in DOMAIN WordlistMaps, one, two \in FetchCodes :
             LET call(code) ==
                   [NewFrame("FetchWord", [ZeroOptions EXCEPT !.Wordlist = wl])
                      EXCEPT !.rollValue = code]
             IN  frame = (1 :> call(one) @@ 2 :> call(two))

NextApi ==
    \/ \E c \in DOMAIN frame : Turn(c) /\ SimpleRollWordsEnter(c)
    \/ \E c \in DOMAIN frame : Turn(c) /\ DefaultOptionsCall(c)
    \/ \E c \in DOMAIN frame : Turn(c) /\ FetchWordCall(c)
    \/ \E c \in DOMAIN frame : Turn(c) /\ RollWordsEnter(c)
    \/ \E c \in DOMAIN frame : Turn(c) /\ RollWordEnter(c)
    \/ \E c \in DOMAIN frame : Turn(c) /\ Roll(c, TRUE)
    \/ \E c \in DOMAIN frame : Turn(c) /\ Fetch(c)
    \/ \E c \in DOMAIN frame : Turn(c) /\ WordsToEnhance(c, TRUE)
    \/ \E c \in DOMAIN frame : Turn(c) /\ Position(c, TRUE)

SpecApi == InitApi /\ [][NextApi]_vars

----------------------------------------------------------------------------
(* One call of the legacy RollWords of src/diceware.go *)

\* separators of one character that is in no word of the wordlists
LegacySeparators == { <<"~">>, <<" ">> }

\* the arguments explored: crypto/rand draws from its full range, so
\* enhancement is explored for at most one word
LegacyInputs ==
    { p \in [ wordCount : (0 - 1)..MaxWordCount, separator : LegacySeparators,
              wl : Wordlists, enhanceEntropy : Flags ] :
        p.enhanceEntropy # <<>> => p.wordCount <= 1 }

InitLegacy ==
    /\ defaultRandom = CryptoRandom
    /\ maps = WordlistMaps
    /\ \E p \in LegacyInputs :
          frame = (1 :> [NewFrame("LegacyRollWords",
                                  [ZeroOptions EXCEPT !.WordCount = p.wordCount,
                                                      !.Separator = p.separator,
                                                      !.Wordlist = p.wl])
                           EXCEPT !.flags = p.enhanceEntropy])

NextLegacy ==
    \/ \E c \in DOMAIN frame : LegacyRollWordsEnter(c)
    \/ \E c \in DOMAIN frame : RollWordEnter(c)
    \/ \E c \in DOMAIN frame : Roll(c, FALSE)
    \/ \E c \in DOMAIN frame : Fetch(c)
    \/ \E c \in DOMAIN frame : WordsToEnhance(c, FALSE)
    \/ \E c \in DOMAIN frame : Position(c, FALSE)

SpecLegacy == InitLegacy /\ [][NextLegacy]_vars

----------------------------------------------------------------------------
(* Concurrent RollWords calls, each drawing from its own random source: call
   1 runs alone; then calls 2 and 3 run with their steps interleaved in every
   order.  Call 2 is given the options of call 1; call 3 rolls a passphrase
   without enhancement. *)

ConcOptions ==
    { [ WordCount |-> 2, Separator |-> <<"~">>, Wordlist |-> "sparseWordlistMap",
        EnhanceEntropy |-> FALSE, RandomSource |-> MockRandomSource ],
      [ WordCount |-> 1, Separator |-> <<"~">>, Wordlist |-> "validWordlistMap",
        EnhanceEntropy |-> TRUE, RandomSource |-> MockRandomSource ] }

\* call 1 is the run alone: the others are invoked once it has returned
Alone(c) == c = 1 \/ frame[1].pc = "done"

InitConc ==
    /\ defaultRandom = CryptoRandom
    /\ maps = WordlistMaps
    /\ \E o \in ConcOptions, other \in {q \in ConcOptions : ~q.EnhanceEntropy} :
          frame = ( 1 :> NewFrame("RollWords", o)
                 @@ 2 :> NewFrame("RollWords", o)
                 @@ 3 :> NewFrame("RollWords", other) )

NextConc ==
    \/ \E c \in DOMAIN frame : Alone(c) /\ RollWordsEnter(c)
    \/ \E c \in DOMAIN frame : Alone(c) /\ RollWordEnter(c)
    \/ \E c \in DOMAIN frame : Alone(c) /\ Roll(c, FALSE)
    \/ \E c \in DOMAIN frame : Alone(c) /\ Fetch(c)
    \/ \E c \in DOMAIN frame : Alone(c) /\ WordsToEnhance(c, FALSE)
    \/ \E c \in DOMAIN frame : Alone(c) /\ Position(c, FALSE)

SpecConc == InitConc /\ [][NextConc]_vars

----------------------------------------------------------------------------
(* One RollWords call with enhancement whose random source is fair: it never
   fails, and a value that can be drawn again and again is eventually drawn.
   The call keeps no history, so a retry returns to a state it was in. *)

\* the 36 characters of the entropy wordlist, in the order of their codes
AllEnhancers ==
    [n \in 1..36 |->
        ExtraEntropyWords[10 * (((n - 1) \div 6) + 1) + ((n - 1) % 6) + 1][1]]

LiveOptions ==
    [ WordCount : {1, 2},
      Separator : { <<>>, <<"~">>, <<"-", "!">>, AllEnhancers },
      Wordlist : {"validWordlistMap"},
      EnhanceEntropy : {TRUE},
      RandomSource : {FairRandomSource} ]

InitLive ==
    /\ defaultRandom = CryptoRandom
    /\ maps = WordlistMaps
    /\ \E o \in LiveOptions :
          frame = (1 :> [NewFrame("RollWords", o) EXCEPT !.record = FALSE])

NextLive ==
    \/ \E c \in DOMAIN frame : RollWordsEnter(c)
    \/ \E c \in DOMAIN frame : RollWordEnter(c)
    \/ \E c \in DOMAIN frame : Roll(c, FALSE)
    \/ \E c \in DOMAIN frame : Fetch(c)
    \/ \E c \in DOMAIN frame : WordsToEnhance(c, FALSE)
    \/ \E c \in DOMAIN frame : Position(c, FALSE)

\* a draw of call c that returns value
Draws(c, value) ==
    /\ Roll(c, FALSE) \/ WordsToEnhance(c, FALSE) \/ Position(c, FALSE)
    /\ frame'[c].last.ok
    /\ frame'[c].last.value = value

\* the call's own steps are taken when they can be, and the source returns
\* every value it can return infinitely often
FairLive ==
    /\ WF_vars(RollWordsEnter(1))
    /\ WF_vars(RollWordEnter(1))
    /\ WF_vars(Fetch(1))
    /\ \A value \in 0..5 : SF_vars(Draws(1, value))

SpecLive == InitLive /\ [][NextLive]_vars /\ FairLive

----------------------------------------------------------------------------
(* Properties *)

Calls == DOMAIN frame

Returned(c) == frame[c].pc = "done"

\* C1: a RollWords or RollWord call given a nil wordlist makes no random draw
\* and no fetch, and returns the empty string with exactly
\* ErrInvalidWordlist, unwrapped, whatever the other arguments are.
C1_NilWordlist ==
    \A c \in Calls :
        frame[c].caller.Wordlist = NilWordlist =>
            /\ frame[c].log = <<>>
            /\ frame[c].fetches = <<>>
            /\ frame[c].pc \in {"RollWords", "RollWord", "done"}
            /\ Returned(c) =>
                  /\ frame[c].result = <<>>
                  /\ frame[c].err = ErrInvalidWordlist

C1_Witness ==
    \E c \in Calls :
        /\ frame[c].api = "RollWords"
        /\ frame[c].caller.Wordlist = NilWordlist
        /\ frame[c].caller.WordCount <= 0
        /\ frame[c].caller.EnhanceEntropy
        /\ Returned(c)

\* C2 as stated: RollWords with WordCount = 0 returns ErrInvalidWordCount
\* for every combination of the other fields, the wordlist included.
C2_ZeroCountAlways ==
    \A c \in Calls :
        /\ frame[c].api = "RollWords"
        /\ frame[c].caller.WordCount = 0
        /\ Returned(c)
        => frame[c].err = ErrInvalidWordCount

\* C2 amended: RollWords with WordCount = 0 and a wordlist that is present
\* returns the empty string with exactly ErrInvalidWordCount, without a
\* draw, for every separator, enhanceEntropy and random source.
C2_ZeroCount ==
    \A c \in Calls :
        /\ frame[c].api = "RollWords"
        /\ frame[c].caller.WordCount = 0
        /\ frame[c].caller.Wordlist # NilWordlist
        => /\ frame[c].log = <<>>
           /\ frame[c].pc \in {"RollWords", "done"}
           /\ Returned(c) =>
                 /\ frame[c].result = <<>>
                 /\ frame[c].err = ErrInvalidWordCount

C2_Witness ==
    \E c \in Calls :
        /\ frame[c].api = "RollWords"
        /\ frame[c].caller.WordCount = 0
        /\ frame[c].caller.Wordlist = "validWordlistMap"
        /\ frame[c].caller.EnhanceEntropy
        /\ frame[c].caller.RandomSource = NilSource
        /\ Returned(c)
        /\ frame[c].err = ErrInvalidWordCount

\* C3: every return of RollWords is a non-empty passphrase with a nil error
\* or the empty string with a non-nil error, at whatever stage it returns.
C3_ResultXorError ==
    \A c \in Calls :
        frame[c].api = "RollWords" /\ Returned(c) =>
            \/ frame[c].result # <<>> /\ frame[c].err = Nil
            \/ frame[c].result = <<>> /\ frame[c].err # Nil

\* a position draw fails after one word has already been enhanced
C3_Witness ==
    \E c \in Calls :
        /\ frame[c].api = "RollWords"
        /\ Returned(c)
        /\ frame[c].i = 1
        /\ frame[c].words[1] # frame[c].rolled[1]
        /\ frame[c].err # Nil
        /\ frame[c].err[1].msg = "failed to determine position for enhancer: %w"
        /\ frame[c].result = <<>>


\* the characters of the strings in S
Chars(S) == UNION { { w[n] : n \in 1..Len(w) } : w \in S }

\* the one-character strings of the entropy wordlist
Enhancers == { ExtraEntropyWords[code] : code \in DOMAIN ExtraEntropyWords }

\* w without its character at index q (1-based)
Without(w, q) == SubSeq(w, 1, q - 1) \o SubSeq(w, q + 1, Len(w))

NoEmpty(segments) == \A n \in 1..Len(segments) : segments[n] # <<>>

\* a RollWords call that returned a passphrase
Succeeded(c) ==
    /\ frame[c].api = "RollWords"
    /\ Returned(c)
    /\ frame[c].err = Nil

\* C4 as stated: without enhancement the passphrase splits on the separator
\* into exactly WordCount non-empty segments, for any separator and wordlist.
C4_SplitAnySeparator ==
    \A c \in Calls :
        Succeeded(c) /\ ~frame[c].caller.EnhanceEntropy =>
            LET split == Split(frame[c].result, frame[c].caller.Separator)
            IN  Len(split) = frame[c].caller.WordCount /\ NoEmpty(split)

\* C4 amended: without enhancement, when the separator is not empty and
\* shares no character with the generated words, the passphrase splits on
\* the separator into exactly WordCount non-empty segments, which are the
\* words as rolled.
C4_Split ==
    \A c \in Calls :
        /\ Succeeded(c)
        /\ ~frame[c].caller.EnhanceEntropy
        /\ frame[c].caller.Separator # <<>>
        /\ Chars({frame[c].caller.Separator})
              \cap Chars({frame[c].rolled[n] : n \in 1..Len(frame[c].rolled)}) = {}
        => LET split == Split(frame[c].result, frame[c].caller.Separator)
           IN  /\ Len(split) = frame[c].caller.WordCount
               /\ NoEmpty(split)
               /\ split = frame[c].rolled

C4_Witness ==
    \E c \in Calls :
        /\ Succeeded(c)
        /\ ~frame[c].caller.EnhanceEntropy
        /\ frame[c].caller.WordCount = 2
        /\ frame[c].caller.Separator = <<"-", "!">>
        /\ Split(frame[c].result, frame[c].caller.Separator)
             = << <<"a", "b">>, <<"c">> >>

\* C5: every character RollWords inserts is an enhancer that the separator
\* does not contain: an accepted enhancer is not in the separator, and each
\* word enhanced so far is its rolled word plus one such character.
C5_NoSeparatorInserted ==
    \A c \in Calls :
        frame[c].api = "RollWords" =>
            /\ frame[c].pc = "pos" =>
                  /\ frame[c].enhancer \in Enhancers
                  /\ ~Contains(frame[c].caller.Separator, frame[c].enhancer)
            /\ \A n \in 1..frame[c].i :
                  \E q \in 1..Len(frame[c].words[n]) :
                     /\ Without(frame[c].words[n], q) = frame[c].rolled[n]
                     /\ <<frame[c].words[n][q]>> \in Enhancers
                     /\ ~Contains(frame[c].caller.Separator,
                                  <<frame[c].words[n][q]>>)

\* the separator is the enhancer "~", which was rolled and discarded
C5_Witness ==
    \E c \in Calls :
        /\ Succeeded(c)
        /\ frame[c].caller.Separator = <<"~">>
        /\ frame[c].discarded >= 1
        /\ frame[c].i >= 1
        /\ frame[c].words[1] # frame[c].rolled[1]

\* C6: numToEnhance is the value drawn with bound WordCount plus one, so it
\* lies in 1..WordCount, and a passphrase returned with enhancement has a
\* word that differs from the word rolled.
C6_NumToEnhance ==
    \A c \in Calls :
        /\ frame[c].api = "RollWords"
        /\ frame[c].caller.EnhanceEntropy
        /\ frame[c].caller.Wordlist # NilWordlist
        /\ frame[c].caller.WordCount >= 1
        => LET f == frame[c]
               \* the draws of the words come first, then the draw of k
               k == f.caller.WordCount * Rolls(f.caller.Wordlist) + 1
               drawn == Len(f.log) >= k /\ f.log[k].ok
           IN  /\ f.numToEnhance # 0 => drawn
               /\ drawn =>
                     /\ f.log[k].bound = f.caller.WordCount
                     /\ f.numToEnhance = f.log[k].value + 1
                     /\ 1 <= f.numToEnhance
                     /\ f.numToEnhance <= f.caller.WordCount
               /\ Succeeded(c) =>
                     /\ drawn
                     /\ \E n \in 1..Len(f.words) : f.words[n] # f.rolled[n]

C6_Witness ==
    \E c \in Calls :
        /\ Succeeded(c)
        /\ frame[c].caller.EnhanceEntropy
        /\ frame[c].caller.WordCount = 2
        /\ frame[c].numToEnhance = 2
        /\ frame[c].log[3] = Drawn(2, 1)

\* C7: a passphrase returned with enhancement has exactly its first
\* numToEnhance words changed, each the rolled word with one enhancer
\* character added, and every later word as rolled.
C7_PrefixEnhanced ==
    \A c \in Calls :
        Succeeded(c) /\ frame[c].caller.EnhanceEntropy =>
            LET f == frame[c] IN
            /\ Len(f.words) = f.caller.WordCount
            /\ Len(f.rolled) = f.caller.WordCount
            /\ f.result = Join(f.words, f.caller.Separator)
            /\ \A n \in 1..Len(f.words) :
                  IF n <= f.numToEnhance
                  THEN /\ f.words[n] # f.rolled[n]
                       /\ Len(f.words[n]) = Len(f.rolled[n]) + 1
                       /\ \E q \in 1..Len(f.words[n]) :
                             /\ Without(f.words[n], q) = f.rolled[n]
                             /\ <<f.words[n][q]>> \in Enhancers
                  ELSE f.words[n] = f.rolled[n]

\* one of two words enhanced, after an enhancer was discarded
C7_Witness ==
    \E c \in Calls :
        /\ Succeeded(c)
        /\ frame[c].caller.EnhanceEntropy
        /\ frame[c].caller.WordCount = 2
        /\ frame[c].numToEnhance = 1
        /\ frame[c].discarded >= 1
        /\ Len(frame[c].words[1]) = Len(frame[c].rolled[1]) + 1
        /\ frame[c].words[2] = frame[c].rolled[2]

\* C8: the position step, drawing p with bound Len(w) for the word w and the
\* accepted enhancer e, replaces w by w[0..p] + e + w[p+1..]: e lands at
\* index p + 1, which lies in 1..Len(w), the first character stays first, a
\* one-character word becomes that character followed by e, and removing
\* the character at index p + 1 gives w back.
C8_InsertAfter ==
    [][ \A c \in Calls :
          /\ frame[c].pc = "pos"
          /\ frame'[c].log # frame[c].log
          /\ frame'[c].log[Len(frame'[c].log)].ok
          => LET w == frame[c].words[frame[c].i + 1]
                 e == frame[c].enhancer
                 draw == frame'[c].log[Len(frame'[c].log)]
                 p == draw.value
                 new == frame'[c].words[frame[c].i + 1]
             IN  /\ draw.bound = Len(w)
                 /\ 1 <= p + 1 /\ p + 1 <= Len(w)
                 /\ Len(new) = Len(w) + 1
                 /\ \A q \in 1..(p + 1) : new[q] = w[q]
                 /\ <<new[p + 2]>> = e
                 /\ \A q \in (p + 2)..Len(w) : new[q + 1] = w[q]
                 /\ new[1] = w[1]
                 /\ Len(w) = 1 => new = w \o e
                 /\ Without(new, p + 2) = w
                 /\ frame'[c].i = frame[c].i + 1
                 /\ \A n \in 1..Len(frame[c].words) :
                       n # frame[c].i + 1 => frame'[c].words[n] = frame[c].words[n]
      ]_vars

\* a one-character word and a two-character word, each with the enhancer
\* inserted at its end
C8_Witness ==
    \E c \in Calls :
        /\ Succeeded(c)
        /\ frame[c].numToEnhance = 2
        /\ frame[c].rolled = << <<"c">>, <<"a", "b">> >>
        /\ frame[c].words = << <<"c", "~">>, <<"a", "b", "!">> >>


\* s is a prefix of t
IsPrefix(s, t) == Len(s) <= Len(t) /\ SubSeq(t, 1, Len(s)) = s

\* C9: two RollWords calls with equal options whose random sources return
\* the same values for the same bounds make the same draws and return the
\* same passphrase and the same error, with and without enhancement.
C9_Deterministic ==
    \A c, d \in Calls :
        frame[c].caller = frame[d].caller =>
            /\ IsPrefix(frame[c].log, frame[d].log)
                  \/ IsPrefix(frame[d].log, frame[c].log)
            /\ Returned(c) /\ Returned(d) =>
                  /\ frame[c].result = frame[d].result
                  /\ frame[c].err = frame[d].err
                  /\ frame[c].log = frame[d].log

\* both calls returned an enhanced passphrase after discarding an enhancer
C9_Witness ==
    /\ Calls = {1, 2}
    /\ \A c \in Calls :
          /\ Succeeded(c)
          /\ frame[c].caller.EnhanceEntropy
          /\ frame[c].caller.WordCount = 2
          /\ frame[c].numToEnhance = 2
          /\ frame[c].discarded >= 1
    /\ frame[1].result = frame[2].result


RECURSIVE Pow10(_)
Pow10(n) == IF n = 0 THEN 1 ELSE 10 * Pow10(n - 1)

\* the sum over j = 1..Len(draws) of (v_j + 1) * 10^(Len(draws) - j)
RECURSIVE RollCode(_)
RollCode(draws) ==
    IF draws = <<>> THEN 0
    ELSE (draws[1].value + 1) * Pow10(Len(draws) - 1) + RollCode(Tail(draws))

\* C10: the roll-code RollWord accumulates and passes to FetchWord is the
\* sum over its draws j = 1..Rolls of (v_j + 1) * 10^(Rolls - j), each draw
\* made with bound SidesOfDice: the first draw is the most significant
\* decimal digit.
C10_RollCode ==
    \A c \in Calls :
        LET f == frame[c] IN
        /\ f.pc = "fetch" =>
              /\ Len(f.log) >= Rolls(f.wl)
              /\ f.rollValue
                    = RollCode(SubSeq(f.log, Len(f.log) - Rolls(f.wl) + 1, Len(f.log)))
        /\ \A n \in 1..Len(f.fetches) :
              LET code == f.fetches[n].code
                  wl == f.fetches[n].wl
                  at == f.fetches[n].at
                  draws == SubSeq(f.log, at - Rolls(wl) + 1, at)
              IN  /\ at >= Rolls(wl)
                  /\ \A j \in 1..Len(draws) :
                        /\ draws[j].ok
                        /\ draws[j].bound = SidesOfDice(wl)
                  /\ code = RollCode(draws)

\* draws 2 and 4 on the two-roll six-sided entropy list give code 35, not
\* 3 * 6 + 5
C10_Witness ==
    \E c \in Calls :
        /\ frame[c].api = "RollWord"
        /\ frame[c].caller.Wordlist = ExtraEntropy
        /\ Returned(c)
        /\ frame[c].log = <<Drawn(6, 2), Drawn(6, 4)>>
        /\ frame[c].fetches = <<[wl |-> ExtraEntropy, code |-> 35, at |-> 2]>>
        /\ frame[c].result = <<"}">>
        /\ 35 # 3 * 6 + 5

----------------------------------------------------------------------------
(* Errors of the word roller and of the passphrase engine *)

\* errors.Is(err, target) for a sentinel target: some layer of err's wrap
\* chain is the target
ErrorsIs(err, target) == \E n \in 1..Len(err) : err[n] = target[1]

\* the error RollWord returns for an empty fetch of roll-code code
FetchError(code) == Errorf("%w for roll value: %d", code, ErrInvalidWordFetched)

\* C11: RollWord makes at most one fetch and returns (w, nil) exactly when
\* that fetch returned the non-empty word w; when the fetch returns the empty
\* string it returns "" and ErrInvalidWordFetched wrapped with the roll-code,
\* after Rolls draws and one fetch, without rolling again.  In RollWords an
\* empty fetch is the call's last step, so no word of a passphrase is empty.
C11_EmptyFetch ==
    \A c \in Calls :
        LET f == frame[c]
            fetched(n) == FetchWord(f.fetches[n].wl, f.fetches[n].code)
        IN
        /\ f.api = "RollWord" =>
              /\ Len(f.fetches) <= 1
              /\ Returned(c) =>
                    /\ f.err = Nil <=> (Len(f.fetches) = 1 /\ fetched(1) # <<>>)
                    /\ f.err = Nil => f.result = fetched(1)
                    /\ (Len(f.fetches) = 1 /\ fetched(1) = <<>>) =>
                          /\ f.result = <<>>
                          /\ f.err = FetchError(f.fetches[1].code)
                          /\ Len(f.log) = Rolls(f.wl)
        /\ \A n \in 1..Len(f.fetches) :
              fetched(n) = <<>> =>
                  /\ n = Len(f.fetches)
                  /\ Len(f.log) = f.fetches[n].at
                  /\ Returned(c)
                  /\ f.result = <<>>
                  /\ ErrorsIs(f.err, ErrInvalidWordFetched)
                  /\ f.err[Len(f.err) - 1].arg = f.fetches[n].code
        /\ f.api = "RollWords" =>
              /\ \A n \in 1..f.wi : f.words[n] # <<>>
              /\ Succeeded(c) => NoEmpty(f.words) /\ NoEmpty(f.rolled)

\* RollWord on a two-roll list with no entry for code 11, its source
\* returning 0 twice
C11_Witness ==
    \E c \in Calls :
        /\ frame[c].api = "RollWord"
        /\ frame[c].caller.Wordlist = "sparseWordlistMap"
        /\ Returned(c)
        /\ frame[c].log = <<Drawn(2, 0), Drawn(2, 0)>>
        /\ frame[c].fetches = <<[wl |-> "sparseWordlistMap", code |-> 11, at |-> 2]>>
        /\ frame[c].result = <<>>
        /\ frame[c].err = <<Layer("%w for roll value: %d", 11),
                            Layer("invalid empty word fetched", 0)>>

\* the error RollWord returns when a draw of its source fails
RollError(source) ==
    Errorf("failed to generate random number: %w", 0, GetRandomError(source))

\* C12: RollWords generates its words in index order, word n from draws
\* (n-1)*Rolls+1..n*Rolls and fetch n.  When the roll of word j is the first
\* to fail, the call has returned: the words before j were generated, the
\* error names j and wraps the roller's error unchanged, and the failed draw
\* or the empty fetch is the last the call made.
C12_FirstFailure ==
    \A c \in Calls :
        LET f == frame[c]
            wl == f.opts.Wordlist
            orig == IF f.rolled # <<>> THEN f.rolled ELSE f.words
            j == f.err[1].arg
        IN
        f.api = "RollWords" =>
            /\ \A n \in 1..f.wi :
                  /\ f.fetches[n] = [wl |-> wl, code |-> f.fetches[n].code,
                                     at |-> n * Rolls(wl)]
                  /\ orig[n] = FetchWord(wl, f.fetches[n].code)
            /\ \A n \in 1..Len(f.log) :
                  ~f.log[n].ok => n = Len(f.log) /\ Returned(c) /\ f.err # Nil
            /\ (Returned(c) /\ f.err # Nil
                    /\ f.err[1].msg = "failed to generate word %d: %w") =>
                  /\ j = f.wi + 1
                  /\ j \in 1..f.caller.WordCount
                  /\ f.result = <<>>
                  /\ \A n \in j..f.caller.WordCount : f.words[n] = <<>>
                  /\ \/ /\ Len(f.fetches) = j
                        /\ Len(f.log) = j * Rolls(wl)
                        /\ f.fetches[j].at = Len(f.log)
                        /\ FetchWord(wl, f.fetches[j].code) = <<>>
                        /\ Tail(f.err) = FetchError(f.fetches[j].code)
                     \/ /\ Len(f.fetches) = j - 1
                        /\ Len(f.log) \in ((j - 1) * Rolls(wl) + 1)..(j * Rolls(wl))
                        /\ ~f.log[Len(f.log)].ok
                        /\ Tail(f.err) = RollError(f.opts.RandomSource)

\* the second of two words fails on an empty fetch after the first was
\* generated
C12_Witness ==
    \E c \in Calls :
        /\ frame[c].api = "RollWords"
        /\ frame[c].caller.WordCount = 2
        /\ frame[c].caller.Wordlist = "sparseWordlistMap"
        /\ Returned(c)
        /\ frame[c].words = << <<"c">>, <<>> >>
        /\ Len(frame[c].log) = 4
        /\ frame[c].err = <<Layer("failed to generate word %d: %w", 2),
                            Layer("%w for roll value: %d", 11),
                            Layer("invalid empty word fetched", 0)>>

IsSuffix(s, t) == Len(s) <= Len(t) /\ SubSeq(t, Len(t) - Len(s) + 1, Len(t)) = s

\* the messages RollWords and RollWord put around an error of a later stage
StageMessages ==
    { "failed to generate word %d: %w",
      "failed to determine words to enhance: %w",
      "failed to generate entropy enhancer: %w",
      "failed to determine position for enhancer: %w",
      "failed to generate random number: %w" }

\* C13: an error returned after the validation has one of two origins, at
\* whatever stage it arose (word roll, draw of the number of words to
\* enhance, enhancer roll, position draw).  After an empty fetch the chain
\* of the returned error contains ErrInvalidWordFetched; after a failed draw
\* it ends with the error the random source returned, whole; the layers put
\* around either only add context.
C13_WrapChain ==
    \A c \in Calls :
        LET f == frame[c]
            emptyFetch ==
                /\ f.fetches # <<>>
                /\ f.fetches[Len(f.fetches)].at = Len(f.log)
                /\ FetchWord(f.fetches[Len(f.fetches)].wl,
                             f.fetches[Len(f.fetches)].code) = <<>>
            failedDraw == f.log # <<>> /\ ~f.log[Len(f.log)].ok
        IN
        (Returned(c) /\ f.err # Nil) =>
            \/ /\ f.err \in {ErrInvalidWordlist, ErrInvalidWordCount}
               /\ f.log = <<>> /\ f.fetches = <<>>
            \/ /\ emptyFetch /\ ~failedDraw
               /\ ErrorsIs(f.err, ErrInvalidWordFetched)
               /\ \A n \in 1..(Len(f.err) - 2) : f.err[n].msg \in StageMessages
            \/ /\ failedDraw /\ ~emptyFetch
               /\ IsSuffix(GetRandomError(f.randomSource), f.err)
               /\ ~ErrorsIs(f.err, ErrInvalidWordFetched)
               /\ \A n \in 1..(Len(f.err) - 2) : f.err[n].msg \in StageMessages

\* the roll of an enhancer fails on its second draw: the source's error lies
\* under two layers of context
C13_Witness ==
    \E c \in Calls :
        /\ frame[c].api = "RollWords"
        /\ Returned(c)
        /\ frame[c].ctx = "enhancer"
        /\ frame[c].log[Len(frame[c].log) - 1] = Drawn(6, 1)
        /\ frame[c].log[Len(frame[c].log)] = Failed(6)
        /\ frame[c].err = <<Layer("failed to generate entropy enhancer: %w", 0),
                            Layer("failed to generate random number: %w", 0),
                            Layer("mock error: %w", 0),
                            Layer("random failure", 0)>>

----------------------------------------------------------------------------
(* A random source that always returns 0 *)

\* every draw of call c returned 0
AlwaysZero(c) ==
    \A n \in 1..Len(frame[c].log) : frame[c].log[n].ok /\ frame[c].log[n].value = 0

\* the roll-code of r draws of 0: r ones
RECURSIVE AllOnes(_)
AllOnes(r) == IF r = 0 THEN 0 ELSE 10 * AllOnes(r - 1) + 1

\* C14: with a source that always returns 0 and without enhancement,
\* RollWords returns, without error, WordCount copies of the word fetched for
\* the all-ones roll-code joined by the separator; five words "test" joined
\* by "_" give "test_test_test_test_test".
C14_AlwaysZero ==
    \A c \in Calls :
        LET f == frame[c]
            wl == f.caller.Wordlist
            word == FetchWord(wl, AllOnes(Rolls(wl)))
        IN
        (f.api = "RollWords" /\ Returned(c) /\ AlwaysZero(c)
              /\ ~f.caller.EnhanceEntropy /\ Validate(f.caller) = Nil) =>
            IF word = <<>>
            THEN f.err # Nil /\ f.result = <<>>
            ELSE /\ f.err = Nil
                 /\ Len(f.log) = f.caller.WordCount * Rolls(wl)
                 /\ f.result = Join([n \in 1..f.caller.WordCount |-> word],
                                    f.caller.Separator)
                 /\ f.caller \in TestOptions =>
                       f.result = << "t", "e", "s", "t", "_", "t", "e", "s", "t", "_",
                                     "t", "e", "s", "t", "_", "t", "e", "s", "t", "_",
                                     "t", "e", "s", "t" >>

C14_Witness ==
    \E c \in Calls :
        /\ Succeeded(c)
        /\ AlwaysZero(c)
        /\ frame[c].caller.WordCount = 5
        /\ frame[c].caller.Separator = <<"_">>
        /\ ~frame[c].caller.EnhanceEntropy
        /\ Len(frame[c].log) = 5
        /\ Len(frame[c].result) = 24

\* C15: with a source that always returns 0, enhancement on and a separator
\* that does not contain "~", RollWords enhances the first word only: it
\* draws 0 for the number of words (one word to enhance), rolls entropy code
\* 11, "~", and inserts it directly after the first character; the other
\* words stay as rolled.  Three words "test" joined by "-" give
\* "t~est-test-test".
C15_AlwaysZeroEnhanced ==
    \A c \in Calls :
        LET f == frame[c]
            wl == f.caller.Wordlist
            W == f.caller.WordCount
            word == FetchWord(wl, AllOnes(Rolls(wl)))
            first == <<word[1], "~">> \o Tail(word)
        IN
        (f.api = "RollWords" /\ Returned(c) /\ AlwaysZero(c)
              /\ f.caller.EnhanceEntropy /\ Validate(f.caller) = Nil
              /\ ~Contains(f.caller.Separator, <<"~">>) /\ word # <<>>) =>
            /\ f.err = Nil
            /\ f.numToEnhance = 1
            /\ f.discarded = 0
            /\ Len(f.log) = W * Rolls(wl) + 4
            /\ f.fetches[Len(f.fetches)] =
                  [wl |-> ExtraEntropy, code |-> 11, at |-> W * Rolls(wl) + 3]
            /\ f.words = [n \in 1..W |-> IF n = 1 THEN first ELSE word]
            /\ f.result = Join([n \in 1..W |-> IF n = 1 THEN first ELSE word],
                               f.caller.Separator)
            /\ f.caller \in TestOptions =>
                  f.result = << "t", "~", "e", "s", "t", "-", "t", "e", "s", "t",
                                "-", "t", "e", "s", "t" >>

C15_Witness ==
    \E c \in Calls :
        /\ Succeeded(c)
        /\ AlwaysZero(c)
        /\ frame[c].caller.WordCount = 3
        /\ frame[c].caller.Separator = <<"-">>
        /\ frame[c].caller.EnhanceEntropy
        /\ frame[c].words = << <<"t", "~", "e", "s", "t">>,
                               <<"t", "e", "s", "t">>, <<"t", "e", "s", "t">> >>

----------------------------------------------------------------------------
(* Splitting an enhanced passphrase *)

\* the words a wordlist can return
WordsOf(wl) ==
    IF wl = MockWordlist THEN {MockWordlistWord}
    ELSE { Map(wl).words[code] : code \in DOMAIN Map(wl).words }

\* C16: with enhancement, for a separator of one character that occurs in no
\* word of the wordlist, the passphrase returned splits on the separator
\* into exactly WordCount non-empty segments, the enhanced words.
C16_SplitEnhanced ==
    \A c \in Calls :
        LET f == frame[c]
            sep == f.caller.Separator
        IN
        (Succeeded(c) /\ f.caller.EnhanceEntropy /\ Len(sep) = 1
              /\ sep[1] \notin Chars(WordsOf(f.caller.Wordlist))) =>
            /\ Len(Split(f.result, sep)) = f.caller.WordCount
            /\ NoEmpty(Split(f.result, sep))
            /\ Split(f.result, sep) = f.words

\* both words enhanced after an enhancer equal to the separator was
\* discarded
C16_Witness ==
    \E c \in Calls :
        /\ Succeeded(c)
        /\ frame[c].caller.EnhanceEntropy
        /\ frame[c].caller.Separator = <<"~">>
        /\ frame[c].caller.WordCount = 2
        /\ frame[c].numToEnhance = 2
        /\ frame[c].discarded = 1
        /\ Len(Split(frame[c].result, <<"~">>)) = 2
        /\ Split(frame[c].result, <<"~">>)[2] # frame[c].rolled[2]

----------------------------------------------------------------------------
(* The convenience entry points *)

\* C17: SimpleRollWords(wordCount, separator, wl, flags...) calls RollWords
\* with the options {wordCount, separator, wl, enhanceEntropy = (a first flag
\* is passed and is true), randomSource = the default source}.  Beside a
\* RollWords call with these options, the random source left out or the
\* default one, and the source returning the same values, it makes the same
\* draws and fetches and returns the same passphrase and the same error, the
\* validation errors included; no flag means false and flags after the first
\* are ignored.
C17_SimpleRollWords ==
    \A c, d \in Calls :
        LET f == frame[c]
            g == frame[d]
        IN
        ( /\ f.api = "RollWords" /\ g.api = "SimpleRollWords"
          /\ f.caller.WordCount = g.caller.WordCount
          /\ f.caller.Separator = g.caller.Separator
          /\ f.caller.Wordlist = g.caller.Wordlist
          /\ f.caller.RandomSource \in {NilSource, defaultRandom}
          /\ f.caller.EnhanceEntropy = (g.flags # <<>> /\ Head(g.flags)) ) =>
            /\ g.pc # "SimpleRollWords" =>
                  /\ g.opts.EnhanceEntropy = f.caller.EnhanceEntropy
                  /\ g.opts.RandomSource = defaultRandom
            /\ IsPrefix(g.log, f.log)
            /\ Returned(d) =>
                  /\ g.result = f.result
                  /\ g.err = f.err
                  /\ g.log = f.log
                  /\ g.fetches = f.fetches
                  /\ g.words = f.words

\* a second flag of true after a first of false is ignored, and a first of
\* true enhances
C17_Witness ==
    \E c, d \in Calls :
        /\ frame[c].api = "RollWords" /\ frame[d].api = "SimpleRollWords"
        /\ Returned(c) /\ Returned(d)
        /\ frame[c].caller.EnhanceEntropy
        /\ frame[d].flags = <<TRUE, FALSE>>
        /\ frame[c].caller.RandomSource = NilSource
        /\ frame[d].err = Nil
        /\ frame[d].result = frame[c].result
        /\ frame[d].words[1] # frame[d].rolled[1]

\* C18: every DefaultOptions call returns WordCount 6, the separator " ",
\* the EFF long wordlist, EnhanceEntropy false and a random source that is
\* not nil, the crypto source; the options pass RollWords' validation, and
\* two successive calls return equal values.
C18_DefaultOptions ==
    \A c, d \in Calls :
        (frame[c].api = "DefaultOptions" /\ Returned(c)) =>
            /\ frame[c].options.WordCount = 6
            /\ frame[c].options.Separator = <<" ">>
            /\ frame[c].options.Wordlist = EFFLong
            /\ ~frame[c].options.EnhanceEntropy
            /\ frame[c].options.RandomSource # NilSource
            /\ frame[c].options.RandomSource = CryptoRandom
            /\ Validate(frame[c].options) = Nil
            /\ (frame[d].api = "DefaultOptions" /\ Returned(d)) =>
                  frame[d].options = frame[c].options

C18_Witness ==
    /\ frame[1].api = "DefaultOptions" /\ Returned(1)
    /\ frame[2].api = "DefaultOptions" /\ Returned(2)
    /\ frame[1].options # ZeroOptions
    /\ frame[2].options.WordCount = 6

----------------------------------------------------------------------------
(* Map-backed wordlists *)

\* C19: FetchWord(code) of a map-backed wordlist returns the word mapped to
\* code when code is a key of its table and the empty string for any other
\* code (code 1 on the entropy table, keyed by 11..66), never an error; and
\* whatever fetches were made, directly or by a roll, every Map has the
\* table, the Rolls and the SidesOfDice it was constructed with.
C19_MapFetchWord ==
    /\ \A c \in Calls :
          LET f == frame[c]
              table == WordlistMaps[f.wl].words
          IN
          (f.api = "FetchWord" /\ Returned(c)) =>
              /\ f.rollValue \in DOMAIN table => f.result = table[f.rollValue]
              /\ f.rollValue \notin DOMAIN table => f.result = <<>>
              /\ f.err = Nil
              /\ (f.wl = ExtraEntropy /\ f.rollValue = 1) => f.result = <<>>
              /\ (f.wl = ExtraEntropy /\ f.rollValue = 11) => f.result = <<"~">>
    /\ \A wl \in DOMAIN WordlistMaps :
          /\ DOMAIN maps[wl].words = DOMAIN WordlistMaps[wl].words
          /\ maps[wl].words = WordlistMaps[wl].words
          /\ Rolls(wl) = WordlistMaps[wl].rolls
          /\ SidesOfDice(wl) = WordlistMaps[wl].sidesOfDice

\* code 1, no key of the entropy table, fetched before code 11
C19_Witness ==
    /\ frame[1].api = "FetchWord" /\ Returned(1)
    /\ frame[2].api = "FetchWord" /\ Returned(2)
    /\ frame[1].wl = ExtraEntropy /\ frame[2].wl = ExtraEntropy
    /\ frame[1].rollValue = 1 /\ frame[1].result = <<>>
    /\ frame[2].rollValue = 11 /\ frame[2].result = <<"~">>

\* the roll-codes of two rolls of a six-sided die
EntropyCodes == { 10 * a + b : a, b \in 1..6 }

\* C20: the entropy wordlist has Rolls 2 and SidesOfDice 6, maps 11 to "~"
\* and 1 to the empty string, and maps the 36 codes with both digits in 1..6
\* to 36 distinct strings of one character.  So every fetch a roll makes of
\* it returns an enhancer, and no error returned from the roll of an
\* enhancer is ErrInvalidWordFetched.
C20_ExtraEntropy ==
    /\ Rolls(ExtraEntropy) = 2
    /\ SidesOfDice(ExtraEntropy) = 6
    /\ FetchWord(ExtraEntropy, 11) = <<"~">>
    /\ FetchWord(ExtraEntropy, 1) = <<>>
    /\ Cardinality(EntropyCodes) = 36
    /\ \A code \in EntropyCodes : Len(FetchWord(ExtraEntropy, code)) = 1
    /\ \A code, other \in EntropyCodes :
          FetchWord(ExtraEntropy, code) = FetchWord(ExtraEntropy, other)
             => code = other
    /\ \A c \in Calls :
          LET f == frame[c] IN
          /\ \A n \in 1..Len(f.fetches) :
                f.fetches[n].wl = ExtraEntropy =>
                    /\ f.fetches[n].code \in EntropyCodes
                    /\ FetchWord(ExtraEntropy, f.fetches[n].code) # <<>>
          /\ (Returned(c) /\ f.wl = ExtraEntropy) =>
                ~ErrorsIs(f.err, ErrInvalidWordFetched)

\* the last of the 36 codes rolled for an enhancer, and the enhancer inserted
C20_Witness ==
    \E c \in Calls :
        /\ Succeeded(c)
        /\ frame[c].caller.EnhanceEntropy
        /\ frame[c].fetches[Len(frame[c].fetches)] =
              [wl |-> ExtraEntropy, code |-> 66, at |-> Len(frame[c].log) - 1]
        /\ frame[c].enhancer = <<"9">>
        /\ "9" \in Chars({frame[c].words[1]})

----------------------------------------------------------------------------
(* The options value the caller holds *)

\* the callee's copy differs from the caller's value at most in a nil
\* RandomSource replaced by the default source
OptionsKept(c) ==
    LET f == frame[c] IN
    /\ f.opts.WordCount = f.caller.WordCount
    /\ f.opts.Separator = f.caller.Separator
    /\ f.opts.Wordlist = f.caller.Wordlist
    /\ f.opts.EnhanceEntropy = f.caller.EnhanceEntropy
    /\ \/ f.opts.RandomSource = f.caller.RandomSource
       \/ /\ f.caller.RandomSource = NilSource
          /\ f.opts.RandomSource = defaultRandom

\* C21: RollWords works on its own copy of the options.  No step of a call
\* changes the options value the caller holds, nor the default source; the
\* copy differs from the caller's value at most in RandomSource, replaced by
\* the default source only when it was nil; and a later call with the same
\* value is handed the options as the caller built them.
C21_OptionsNotMutated ==
    /\ [](\A c, d \in Calls :
            /\ OptionsKept(c)
            /\ defaultRandom = CryptoRandom
            /\ frame[c].caller = frame[d].caller)
    /\ [][\A c \in Calls : frame'[c].caller = frame[c].caller
                            /\ defaultRandom' = defaultRandom]_vars

\* the first call has drawn from the default source it filled in; the
\* second, not yet started, holds the options with the source still nil
C21_Witness ==
    /\ Returned(1)
    /\ frame[1].caller.RandomSource = NilSource
    /\ frame[1].opts.RandomSource = CryptoRandom
    /\ frame[1].log # <<>>
    /\ frame[2].pc = "RollWords"
    /\ frame[2].caller.RandomSource = NilSource
    /\ frame[2].opts.RandomSource = NilSource

----------------------------------------------------------------------------
(* Concurrent calls *)

\* C22: RollWords calls running concurrently, each with its own random
\* source, do not interfere.  Under every interleaving a call that has made
\* the draws of the call run alone with the same options has returned what
\* that call returned; every step changes the locals of one call only, and
\* none writes the state the calls share, the wordlist tables and the
\* default source.
C22_NoInterference ==
    /\ [](\A c, d \in Calls :
            /\ maps = WordlistMaps
            /\ defaultRandom = CryptoRandom
            /\ (frame[c].caller = frame[d].caller /\ Returned(c) /\ Returned(d)
                    /\ frame[c].log = frame[d].log) =>
                  /\ frame[c].result = frame[d].result
                  /\ frame[c].err = frame[d].err
                  /\ frame[c].words = frame[d].words
                  /\ frame[c].fetches = frame[d].fetches)
    /\ [][\E c \in Calls : \A d \in Calls \ {c} : frame'[d] = frame[d]]_vars

\* call 2 has returned the enhanced passphrase of call 1 on the same draws
\* while call 3 is between the rolls of its two words
C22_Witness ==
    /\ Returned(1) /\ Returned(2)
    /\ frame[1].caller.EnhanceEntropy
    /\ frame[1].err = Nil
    /\ frame[2].log = frame[1].log
    /\ frame[2].result = frame[1].result
    /\ frame[1].discarded = 1
    /\ frame[3].pc = "roll"
    /\ frame[3].wi = 1

----------------------------------------------------------------------------
(* The legacy RollWords *)

\* C23 as stated: every return of the legacy RollWords with a nil error
\* carries a non-empty passphrase that splits on the separator into exactly
\* wordCount segments, for every wordCount passed.
C23_LegacySplit ==
    \A c \in Calls :
        (frame[c].api = "LegacyRollWords" /\ Returned(c) /\ frame[c].err = Nil) =>
            /\ frame[c].result # <<>>
            /\ Len(Split(frame[c].result, frame[c].caller.Separator))
                  = frame[c].caller.WordCount

----------------------------------------------------------------------------
(* The digits of a roll-code *)

\* the decimal digits of n >= 0, most significant first; none for 0
RECURSIVE Digits(_)
Digits(n) == IF n = 0 THEN <<>> ELSE Append(Digits(n \div 10), n % 10)

\* the roll-code of fetch n of call c is written with Rolls digits, the j-th
\* the face of the j-th draw of the roll, in 1..SidesOfDice
DigitsOfRolls(c, n) ==
    LET f == frame[c]
        wl == f.fetches[n].wl
        at == f.fetches[n].at
        digits == Digits(f.fetches[n].code)
    IN  /\ Len(digits) = Rolls(wl)
        /\ \A j \in 1..Len(digits) :
              /\ digits[j] \in 1..SidesOfDice(wl)
              /\ j <= Rolls(wl) => digits[j] = f.log[at - Rolls(wl) + j].value + 1

\* C24 as stated: every roll-code passed to FetchWord has exactly Rolls
\* decimal digits, each in 1..SidesOfDice, most significant first, for every
\* wordlist with Rolls >= 1 and SidesOfDice >= 1.
C24_DigitsAnySides ==
    \A c \in Calls : \A n \in 1..Len(frame[c].fetches) : DigitsOfRolls(c, n)

\* C24: for every wordlist with Rolls >= 1 and 1 <= SidesOfDice <= 9, every
\* roll-code passed to FetchWord has exactly Rolls decimal digits, the j-th
\* being the face of the j-th draw, in 1..SidesOfDice.
C24_Digits ==
    \A c \in Calls : \A n \in 1..Len(frame[c].fetches) :
        SidesOfDice(frame[c].fetches[n].wl) <= 9 => DigitsOfRolls(c, n)

\* draws 5 and 1 of a six-sided die give the code 62
C24_Witness ==
    \E c \in Calls :
        /\ frame[c].fetches # <<>>
        /\ frame[c].fetches[Len(frame[c].fetches)].code = 62
        /\ Digits(62) = <<6, 2>>
        /\ frame[c].log[Len(frame[c].log) - 1] = Drawn(6, 5)
        /\ frame[c].log[Len(frame[c].log)] = Drawn(6, 1)
        /\ frame[c].last = Drawn(6, 1)

----------------------------------------------------------------------------
(* The enhancement loop, step by step *)

\* call c is about to fetch an enhancer that the separator contains
DiscardStep(c) ==
    LET f == frame[c] IN
    /\ f.pc = "fetch"
    /\ f.ctx = "enhancer"
    /\ FetchWord(f.wl, f.rollValue) # <<>>
    /\ Contains(f.opts.Separator, FetchWord(f.wl, f.rollValue))

\* C25: a step that fetches an enhancer contained in the separator changes
\* nothing but the call's place: i, numToEnhance and every word stay as they
\* are, no draw is made, and the call is at the head of a fresh roll of the
\* entropy wordlist for the same i.  A step changes i only by inserting an
\* enhancer into words[i], after which i is greater by exactly 1.
C25_DiscardRetry ==
    [][\A c \in Calls :
          LET f == frame[c]
              g == frame'[c]
          IN
          /\ (DiscardStep(c) /\ g # f) =>
                /\ g.i = f.i
                /\ g.numToEnhance = f.numToEnhance
                /\ g.words = f.words
                /\ g.log = f.log
                /\ g.pc = "RollWord" /\ g.ctx = "enhancer" /\ g.wl = ExtraEntropy
                /\ g.discarded = f.discarded + 1
          /\ g.i # f.i =>
                /\ f.pc = "pos"
                /\ g.i = f.i + 1
                /\ Len(g.log) = Len(f.log) + 1
                /\ g.words[f.i + 1] = Insert(f.words[f.i + 1], g.last.value, f.enhancer)
                /\ \A n \in 1..Len(f.words) : n # f.i + 1 => g.words[n] = f.words[n]
      ]_vars

\* after a discard at the second word, that word is enhanced
C25_Witness ==
    \E c \in Calls :
        /\ Succeeded(c)
        /\ frame[c].caller.WordCount = 2
        /\ frame[c].numToEnhance = 2
        /\ frame[c].i = 2
        /\ frame[c].discarded = 1
        /\ Len(frame[c].fetches) = 5
        /\ Contains(frame[c].caller.Separator,
                    FetchWord(ExtraEntropy, frame[c].fetches[4].code))
        /\ frame[c].words[2] # frame[c].rolled[2]

\* the draws of f's log from index p on are those of enhancement attempts
\* for the words from index i (0-based) on: two draws bounded by 6, then,
\* when the separator does not contain the enhancer rolled, one draw bounded
\* by the length of the word, which moves to the next word
RECURSIVE Attempts(_, _, _)
Attempts(f, p, i) ==
    IF p > Len(f.log)
    THEN i = f.numToEnhance
    ELSE /\ i < f.numToEnhance
         /\ p + 1 <= Len(f.log)
         /\ f.log[p].bound = 6 /\ f.log[p].ok
         /\ f.log[p + 1].bound = 6 /\ f.log[p + 1].ok
         /\ LET enhancer == ExtraEntropyWords[RollCode(SubSeq(f.log, p, p + 1))]
            IN  IF Contains(f.opts.Separator, enhancer)
                THEN Attempts(f, p + 2, i)
                ELSE /\ p + 2 <= Len(f.log)
                     /\ f.log[p + 2].bound = Len(f.rolled[i + 1])
                     /\ f.log[p + 2].ok
                     /\ Attempts(f, p + 3, i + 1)

\* C26: a RollWords call that returned a passphrase drew in this order:
\* WordCount * Rolls draws bounded by SidesOfDice, all words before any
\* enhancement; without enhancement nothing more; with it one draw bounded by
\* WordCount, then for each attempt two draws bounded by 6 followed, only
\* when the enhancer is accepted, by one draw bounded by the length of the
\* word to enhance.
C26_DrawOrder ==
    \A c \in Calls :
        LET f == frame[c]
            wl == f.opts.Wordlist
            W == f.caller.WordCount
            rolls == W * Rolls(wl)
        IN
        Succeeded(c) =>
            /\ Len(f.log) >= rolls
            /\ \A n \in 1..rolls : f.log[n].bound = SidesOfDice(wl) /\ f.log[n].ok
            /\ \A n \in 1..W : f.fetches[n].at = n * Rolls(wl)
            /\ ~f.opts.EnhanceEntropy => Len(f.log) = rolls
            /\ f.opts.EnhanceEntropy =>
                  /\ Len(f.log) > rolls
                  /\ f.log[rolls + 1].bound = W /\ f.log[rolls + 1].ok
                  /\ Attempts(f, rolls + 2, 0)

\* two words enhanced, the second after one enhancer was discarded: thirteen
\* draws
C26_Witness ==
    \E c \in Calls :
        /\ Succeeded(c)
        /\ frame[c].caller.WordCount = 2
        /\ frame[c].caller.Wordlist = "sparseWordlistMap"
        /\ frame[c].numToEnhance = 2
        /\ frame[c].discarded = 1
        /\ [n \in 1..Len(frame[c].log) |-> frame[c].log[n].bound]
              \in { <<2, 2, 2, 2, 2, 6, 6, b, 6, 6, 6, 6, d>> : b, d \in 1..2 }

----------------------------------------------------------------------------
(* Bounds and indexes *)

\* call c is inside RollWord, called from RollWords' loop ctx
InRollWord(c, ctx) ==
    /\ frame[c].ctx = ctx
    /\ frame[c].pc \in {"RollWord", "roll", "fetch"}

\* C28: with a random source returning 0 <= value < bound, RollWords never
\* panics: the draw of the number of words to enhance has bound wordCount >= 1,
\* every position draw has bound len(words[i]) >= 1, the indexes used on words
\* (the word loop's and the enhancement loop's i) stay below wordCount, and the
\* split point pos+1 of every insertion lies in 1..len(words[i]).
C28_InRange ==
    \A c \in Calls :
        LET f == frame[c] IN
        f.api \in {"RollWords", "SimpleRollWords"} =>
            /\ f.pc # "panic"
            /\ f.pc = "wordsToEnhance" =>
                  /\ Len(f.words) = f.opts.WordCount
                  /\ Len(f.words) >= 1
            /\ InRollWord(c, "word") =>
                  /\ f.wi < f.opts.WordCount
                  /\ f.wi + 1 \in DOMAIN f.words
            /\ InRollWord(c, "enhancer") \/ f.pc = "pos" =>
                  /\ f.i < f.numToEnhance
                  /\ f.numToEnhance <= f.opts.WordCount
                  /\ f.i + 1 \in DOMAIN f.words
            /\ f.pc = "pos" =>
                  /\ Len(f.words[f.i + 1]) >= 1
                  /\ \A pos \in PositionOutcomes(c, f.opts.RandomSource,
                                                 Len(f.words[f.i + 1]), FALSE) :
                        pos.ok => pos.value + 1 \in 1..Len(f.words[f.i + 1])

\* a call that enhanced every word returned after an insertion at the last
\* position of a word of two or more characters
C28_Witness ==
    \E c \in Calls :
        /\ Succeeded(c)
        /\ frame[c].opts.EnhanceEntropy
        /\ frame[c].opts.WordCount = MaxWordCount
        /\ frame[c].i = frame[c].opts.WordCount
        /\ frame[c].last.ok
        /\ frame[c].last.bound >= 2
        /\ frame[c].last.value + 1 = frame[c].last.bound

----------------------------------------------------------------------------
(* Injectivity of the roll-code *)

\* the roll-code RollWord's loop accumulates from the values drawn, the first
\* in the iteration i = Len(values)
RECURSIVE RollValueOf(_)
RollValueOf(values) ==
    IF values = <<>> THEN 0
    ELSE Accumulate(RollValueOf(Tail(values)), Len(values), Head(values))

\* the values of the last n draws of call c
LastDraws(c, n) ==
    [j \in 1..n |-> frame[c].log[Len(frame[c].log) - n + j].value]

\* C29: for a wordlist with SidesOfDice <= 10, the roll-code RollWord passes to
\* FetchWord is produced by exactly one sequence of Rolls draws below
\* SidesOfDice: every other sequence of draws gives a different roll-code.
C29_Injective ==
    \A c \in Calls :
        LET f == frame[c] IN
        (f.pc = "fetch" /\ SidesOfDice(f.wl) <= 10) =>
            LET n == Rolls(f.wl)
                actual == LastDraws(c, n)
            IN  /\ RollValueOf(actual) = f.rollValue
                /\ \A alt \in [1..n -> 0..(SidesOfDice(f.wl) - 1)] :
                      RollValueOf(alt) = f.rollValue => alt = actual

\* a ten-sided roll of 1 and 10, whose code 20 only these draws produce
C29_Witness ==
    \E c \in Calls :
        /\ frame[c].api = "RollWord"
        /\ frame[c].wl = "tenSidedMap"
        /\ frame[c].pc = "fetch"
        /\ LastDraws(c, 2) = <<0, 9>>
        /\ frame[c].rollValue = 20
        /\ SidesOfDice(frame[c].wl) = 10

----------------------------------------------------------------------------
(* Termination *)

\* C27 as stated: every RollWords call with enhancement eventually returns a
\* passphrase or an error, for every separator, under a fair random source.
C27_Terminates == <>Returned(1)

====
